---- MODULE Spec2Model ----
(***************************************************************************)
(* Products API: the in-memory Express server (src/routes/productRoutes.js *)
(* lines 116-456) and the Mongoose router (src/routes/productRoutes.js     *)
(* lines 1-115, schema in src/unnamed/part_000).                           *)
(*                                                                         *)
(* Strings are sequences of one-character strings, so that trim(),         *)
(* toLowerCase(), includes() and parseInt() are computed, not assumed.     *)
(* A description, on which the code calls nothing but trim(), is a         *)
(* sequence of pieces: a piece is one space, or a run of text that neither *)
(* starts nor ends with white space.                                       *)
(* A JSON value is a record [t, s, n, b]: t is the JavaScript type tag.    *)
(***************************************************************************)
EXTENDS Integers, Sequences, FiniteSets, TLC

\* ------------------------------------------------------------------ bounds
\* Requests the in-memory server accepts in one behaviour of Spec.
MaxRequests == 3
\* Requests the in-memory server accepts in one behaviour of SpecGate,
\* SpecValidate and SpecQuery.
MaxGateRequests == 1
\* Requests the router accepts in one behaviour of SpecGate.
MaxRouterRequests == 2
\* Identifiers uuidv4() can hand out in one behaviour.
MaxUuid == 2

\* ------------------------------------------------------------- characters
UpperCase == <<"A", "B", "C", "D", "E", "F", "G", "H", "I", "J", "K", "L", "M", "N", "O", "P", "Q", "R", "S", "T", "U", "V", "W", "X", "Y", "Z">>
LowerCase == <<"a", "b", "c", "d", "e", "f", "g", "h", "i", "j", "k", "l", "m", "n", "o", "p", "q", "r", "s", "t", "u", "v", "w", "x", "y", "z">>
Digits == <<"0", "1", "2", "3", "4", "5", "6", "7", "8", "9">>

\* String.prototype.toLowerCase on one character.
LowerChar(c) ==
  IF \E i \in 1..Len(UpperCase) : UpperCase[i] = c
    THEN LowerCase[CHOOSE i \in 1..Len(UpperCase) : UpperCase[i] = c]
    ELSE c

toLowerCase(s) == [i \in 1..Len(s) |-> LowerChar(s[i])]

IsSpace(c) == c = " "

RECURSIVE trimStart(_)
trimStart(s) ==
  IF s # <<>> /\ IsSpace(Head(s)) THEN trimStart(Tail(s)) ELSE s

RECURSIVE trimEnd(_)
trimEnd(s) ==
  IF s # <<>> /\ IsSpace(s[Len(s)]) THEN trimEnd(SubSeq(s, 1, Len(s) - 1)) ELSE s

\* String.prototype.trim
trim(s) == trimEnd(trimStart(s))

\* String.prototype.includes
includes(s, sub) ==
  \E i \in 0..(Len(s) - Len(sub)) : SubSeq(s, i + 1, i + Len(sub)) = sub

IsDigit(c) == \E i \in 1..Len(Digits) : Digits[i] = c

DigitValue(c) == (CHOOSE i \in 1..Len(Digits) : Digits[i] = c) - 1

\* The value of the longest prefix of digits of s, continuing from acc.
RECURSIVE digitsValue(_, _)
digitsValue(s, acc) ==
  IF s # <<>> /\ IsDigit(Head(s))
    THEN digitsValue(Tail(s), 10 * acc + DigitValue(Head(s)))
    ELSE acc

\* parseInt(s, 10): leading white space is skipped, one sign is read, then the
\* longest run of digits; no digit at all gives NaN.
parseInt(s) ==
  LET t == trimStart(s)
      signed == t # <<>> /\ Head(t) \in {"-", "+"}
      d == IF signed THEN Tail(t) ELSE t
      mag == digitsValue(d, 0)
  IN IF d = <<>> \/ ~IsDigit(Head(d))
       THEN [nan |-> TRUE, n |-> 0]
       ELSE [nan |-> FALSE, n |-> IF signed /\ Head(t) = "-" THEN 0 - mag ELSE mag]

Max(a, b) == IF a >= b THEN a ELSE b
Min(a, b) == IF a <= b THEN a ELSE b

\* -------------------------------------------------------------- JSON values
Undefined == [t |-> "undefined", s |-> <<>>, n |-> 0, b |-> FALSE]
Null == [t |-> "null", s |-> <<>>, n |-> 0, b |-> FALSE]
Obj == [t |-> "object", s |-> <<>>, n |-> 0, b |-> FALSE]
Str(x) == [t |-> "string", s |-> x, n |-> 0, b |-> FALSE]
Num(x) == [t |-> "number", s |-> <<>>, n |-> x, b |-> FALSE]
Bool(x) == [t |-> "boolean", s |-> <<>>, n |-> 0, b |-> x]

\* !v
Falsy(v) ==
  \/ v.t \in {"undefined", "null"}
  \/ v.t = "string" /\ v.s = <<>>
  \/ v.t = "number" /\ v.n = 0
  \/ v.t = "boolean" /\ ~v.b

\* typeof v
typeof(v) == IF v.t = "null" THEN "object" ELSE v.t

\* ------------------------------------------------------------------ errors
NoText == [text |-> "", id |-> <<>>]
Text(m) == [text |-> m, id |-> <<>>]

MkError(class, name, message, statusCode, status, hasBody) ==
  [class |-> class, name |-> name, message |-> message,
   statusCode |-> statusCode, status |-> status, hasBody |-> hasBody]

NotFoundError(id) ==
  MkError("NotFoundError", "NotFoundError",
          [text |-> "Product with id '${id}' not found", id |-> id], 404, 0, FALSE)

ValidationError(m) ==
  MkError("ValidationError", "ValidationError", Text(m), 400, 0, FALSE)

AuthenticationError(m) ==
  MkError("AuthenticationError", "AuthenticationError", Text(m), 401, 0, FALSE)

\* What bodyParser.json() passes to next() for a body that is not JSON.
JsonSyntaxError ==
  MkError("SyntaxError", "SyntaxError", Text("Unexpected token in JSON"), 400, 400, TRUE)

\* What products.find / findIndex throw when the callback reads p.id of an
\* empty slot of the array.
HoleTypeError ==
  MkError("TypeError", "TypeError",
          Text("Cannot read properties of undefined (reading 'id')"), 0, 0, FALSE)

\* ---------------------------------------------------------------- products
\* A slot of the products array: a record, or an empty slot (hole |-> TRUE) of
\* a sparse array, which `products[i] = x` leaves behind when i > length.
Product(id, name, description, price, category, inStock) ==
  [hole |-> FALSE, id |-> id, name |-> name, description |-> description,
   price |-> price, category |-> category, inStock |-> inStock]

Hole ==
  [hole |-> TRUE, id |-> <<>>, name |-> <<>>, description |-> <<>>,
   price |-> 0, category |-> <<>>, inStock |-> FALSE]

LaptopName == <<"L", "a", "p", "t", "o", "p">>
LaptopDescription == <<"High-performance laptop with 16GB RAM">>
SmartphoneName == <<"S", "m", "a", "r", "t", "p", "h", "o", "n", "e">>
SmartphoneDescription == <<"Latest model with 128GB storage">>
CoffeeMakerName == <<"C", "o", "f", "f", "e", "e", " ", "M", "a", "k", "e", "r">>
CoffeeMakerDescription == <<"Programmable coffee maker with timer">>
Electronics == <<"e", "l", "e", "c", "t", "r", "o", "n", "i", "c", "s">>
Kitchen == <<"k", "i", "t", "c", "h", "e", "n">>

\* let products = [ ... ]
SeedProducts ==
  << Product(<<"1">>, LaptopName, LaptopDescription, 1200, Electronics, TRUE),
     Product(<<"2">>, SmartphoneName, SmartphoneDescription, 800, Electronics, TRUE),
     Product(<<"3">>, CoffeeMakerName, CoffeeMakerDescription, 50, Kitchen, FALSE) >>

\* The identifiers uuidv4() draws from: never one of the seed ids.
Uuids == { <<"u", Digits[k + 1]>> : k \in 1..MaxUuid }

\* ---------------------------------------------------------------- requests
\* req.body as the client sent it: not parsable as JSON, or an object whose
\* fields are JSON values (Undefined for a field that is not there).
Body(id, name, description, price, category, inStock) ==
  [malformed |-> FALSE, id |-> id, name |-> name, description |-> description,
   price |-> price, category |-> category, inStock |-> inStock]

\* No body, or {}: bodyParser leaves req.body = {}.
EmptyBody == Body(Undefined, Undefined, Undefined, Undefined, Undefined, Undefined)

MalformedBody == [EmptyBody EXCEPT !.malformed = TRUE]

\* req.headers['x-api-key']
NoKey == [present |-> FALSE, value |-> ""]
Key(v) == [present |-> TRUE, value |-> v]

\* A query parameter: absent, or a string.
NoParam == [present |-> FALSE, s |-> <<>>]
Param(x) == [present |-> TRUE, s |-> x]

Query(category, q, page, limit) ==
  [category |-> category, q |-> q, page |-> page, limit |-> limit]

NoQuery == Query(NoParam, NoParam, NoParam, NoParam)

Request(server, method, route, id, apiKey, body, query) ==
  [server |-> server, method |-> method, route |-> route, id |-> id,
   apiKey |-> apiKey, body |-> body, query |-> query]

\* --------------------------------------------------------------- responses
CanonicalKeys == {"name", "message", "statusCode", "timestamp", "path", "method"}

Response(status, keys, error, message, product, envelope) ==
  [status |-> status, keys |-> keys, error |-> error, message |-> message,
   product |-> product, envelope |-> envelope]

\* { error: { name, message, statusCode, timestamp, path, method } }
ErrorBody(name, message, statusCode, req) ==
  Response(statusCode, {"error"},
           << [name |-> name, message |-> message, statusCode |-> statusCode,
               path |-> [route |-> req.route, id |-> req.id],
               method |-> req.method, keys |-> CanonicalKeys] >>,
           "", <<>>, <<>>)

\* The global error handling middleware.
errorHandler(err, req, nodeEnv) ==
  IF err.class \in {"NotFoundError", "ValidationError", "AuthenticationError"}
    THEN ErrorBody(err.name, err.message, err.statusCode, req)
  ELSE IF err.name = "CastError"
    THEN ErrorBody("ValidationError", Text("Invalid ID format"), 400, req)
  ELSE IF err.name = "SyntaxError" /\ err.status = 400 /\ err.hasBody
    THEN ErrorBody("ValidationError", Text("Invalid JSON format in request body"), 400, req)
  ELSE ErrorBody("InternalServerError",
                 IF nodeEnv = "production"
                   THEN Text("Something went wrong on our end")
                   ELSE err.message,
                 500, req)

\* ------------------------------------------------------------------- gates
\* app.use(bodyParser.json()): the error passed to next(), if any.
bodyParser(req) ==
  IF req.body.malformed THEN <<JsonSyntaxError>> ELSE <<>>

\* process.env.API_KEY || 'your-secret-api-key', with API_KEY unset.
ExpectedApiKey == "your-secret-api-key"

\* authenticateApiKey: the error passed to next(), if any.
authenticateApiKey(req) ==
  IF ~req.apiKey.present \/ req.apiKey.value = ""
    THEN <<AuthenticationError("API key required in x-api-key header")>>
  ELSE IF req.apiKey.value # ExpectedApiKey
    THEN <<AuthenticationError("Invalid API key")>>
  ELSE <<>>

\* validateProduct: the error passed to next(), if any.
validateProduct(req) ==
  LET name == req.body.name
      description == req.body.description
      price == req.body.price
      category == req.body.category
      inStock == req.body.inStock
  IN IF Falsy(name) \/ Falsy(description) \/ price.t = "undefined" \/ Falsy(category)
       THEN <<ValidationError("Missing required fields: name, description, price, category are required")>>
     ELSE IF typeof(name) # "string" \/ Len(trim(name.s)) = 0
       THEN <<ValidationError("name must be a non-empty string")>>
     ELSE IF typeof(description) # "string"
       THEN <<ValidationError("description must be a string")>>
     ELSE IF typeof(price) # "number" \/ price.n < 0
       THEN <<ValidationError("price must be a positive number")>>
     ELSE IF typeof(category) # "string" \/ Len(trim(category.s)) = 0
       THEN <<ValidationError("category must be a non-empty string")>>
     ELSE IF inStock.t # "undefined" /\ typeof(inStock) # "boolean"
       THEN <<ValidationError("inStock must be a boolean")>>
     ELSE <<>>

\* The first error of a chain of middleware results.
RECURSIVE FirstError(_)
FirstError(results) ==
  IF results = <<>> THEN <<>>
  ELSE IF Head(results) # <<>> THEN Head(results)
  ELSE FirstError(Tail(results))

\* The middleware in front of a route's handler, in registration order:
\* bodyParser.json() is app-wide, then the route's own chain.
Gate(req) ==
  IF req.method = "POST" \/ req.method = "PUT"
    THEN FirstError(<<bodyParser(req), authenticateApiKey(req), validateProduct(req)>>)
  ELSE IF req.method = "DELETE"
    THEN FirstError(<<bodyParser(req), authenticateApiKey(req)>>)
  ELSE bodyParser(req)

\* ------------------------------------------------------- array operations
\* Array.prototype.findIndex(p => p.id === id), 0-based, -1 when absent. The
\* callback reads p.id of every slot from the front, an empty slot included
\* (p is undefined there), so it throws at an empty slot it reaches.
RECURSIVE findIndexFrom(_, _, _)
findIndexFrom(store, id, i) ==
  IF i > Len(store) THEN [threw |-> FALSE, index |-> 0 - 1]
  ELSE IF store[i].hole THEN [threw |-> TRUE, index |-> 0 - 1]
  ELSE IF store[i].id = id THEN [threw |-> FALSE, index |-> i - 1]
  ELSE findIndexFrom(store, id, i + 1)

findIndex(store, id) == findIndexFrom(store, id, 1)

\* store[index] = product (0-based): in place, at the end, or past the end,
\* which leaves empty slots in between.
assignAt(store, index, product) ==
  [i \in 1..Max(Len(store), index + 1) |->
     IF i = index + 1 THEN product
     ELSE IF i <= Len(store) THEN store[i]
     ELSE Hole]

\* store.splice(index, 1) (0-based): the array without that slot, and [0] of
\* what splice returns: nothing past the end, undefined for an empty slot.
splice(store, index) ==
  IF index + 1 > Len(store)
    THEN [store |-> store, removed |-> <<>>]
    ELSE [store |-> SubSeq(store, 1, index) \o SubSeq(store, index + 2, Len(store)),
          removed |-> IF store[index + 1].hole THEN <<>> ELSE <<store[index + 1]>>]

\* Array.prototype.filter, the callback given as the set of records it
\* answers true for: it is not called on empty slots, which are dropped.
filter(store, passing) ==
  LET Kept(p) == ~p.hole /\ p \in passing IN SelectSeq(store, Kept)

\* Array.prototype.slice(start, end), 0-based, end exclusive.
slice(store, start, end) == SubSeq(store, start + 1, Min(end, Len(store)))

\* ---------------------------------------------------------------- handlers
ProductKeys == {"id", "name", "description", "price", "category", "inStock"}

Envelope(page, limit, total, data) ==
  [page |-> page, limit |-> limit, total |-> total, data |-> data]

\* parseInt(x, 10) || fallback
parseIntOr(s, fallback) ==
  LET v == parseInt(s) IN IF v.nan \/ v.n = 0 THEN fallback ELSE v.n

\* A list handler that starts its slice one page too far.
getProductsFromNextPage(store, query) ==
  LET category == query.category
      q == query.q
      page == IF query.page.present THEN query.page.s ELSE <<"1">>
      limit == IF query.limit.present THEN query.limit.s ELSE <<"1", "0">>
      records == { store[i] : i \in 1..Len(store) }
      SameCategory == { p \in records : toLowerCase(p.category) = toLowerCase(category.s) }
      NameHasQ == { p \in records : includes(toLowerCase(p.name), toLowerCase(q.s)) }
      byCategory == IF category.present /\ category.s # <<>>
                      THEN filter(store, SameCategory) ELSE store
      results == IF q.present /\ q.s # <<>>
                   THEN filter(byCategory, NameHasQ) ELSE byCategory
      pageNum == Max(parseIntOr(page, 1), 1)
      limitNum == Min(Max(parseIntOr(limit, 10), 1), 100)
      total == Len(results)
      start == pageNum * limitNum
      data == slice(results, start, start + limitNum)
  IN Envelope(pageNum, limitNum, total, data)

\* GET /api/products: the body computed before the await.
getProducts(store, query) ==
  LET category == query.category
      q == query.q
      page == IF query.page.present THEN query.page.s ELSE <<"1">>
      limit == IF query.limit.present THEN query.limit.s ELSE <<"1", "0">>
      records == { store[i] : i \in 1..Len(store) }
      SameCategory == { p \in records : toLowerCase(p.category) = toLowerCase(category.s) }
      NameHasQ == { p \in records : includes(toLowerCase(p.name), toLowerCase(q.s)) }
      byCategory == IF category.present /\ category.s # <<>>
                      THEN filter(store, SameCategory) ELSE store
      results == IF q.present /\ q.s # <<>>
                   THEN filter(byCategory, NameHasQ) ELSE byCategory
      pageNum == Max(parseIntOr(page, 1), 1)
      limitNum == Min(Max(parseIntOr(limit, 10), 1), 100)
      total == Len(results)
      start == (pageNum - 1) * limitNum
      data == slice(results, start, start + limitNum)
  IN Envelope(pageNum, limitNum, total, data)

\* A record built from the body's strings as they came, untrimmed.
buildProductUntrimmed(id, body) ==
  Product(id, body.name.s, body.description.s, body.price.n, body.category.s,
          IF body.inStock.t = "undefined" THEN TRUE ELSE body.inStock.b)

\* const { ..., inStock = true } = req.body and the record built from it: the
\* id is the handler's, never the body's.
buildProduct(id, body) ==
  Product(id, trim(body.name.s), trim(body.description.s), body.price.n,
          trim(body.category.s),
          IF body.inStock.t = "undefined" THEN TRUE ELSE body.inStock.b)

\* A continuation waiting in the microtask queue: the rest of an async handler
\* after its await, or the rejection asyncHandler passes to next().
Task(kind, h, err, resp, product, index) ==
  [kind |-> kind, h |-> h, err |-> err, resp |-> resp, product |-> product,
   index |-> index]

Reject(h, err) == Task("reject", h, <<err>>, <<>>, <<>>, 0)

Now(resp) == [resp |-> <<resp>>, task |-> <<>>]
Later(task) == [resp |-> <<>>, task |-> <<task>>]

\* GET /api/products/:id: res.json(product) is sent at once, a throw rejects
\* the handler's promise.
getProductById(store, req, h) ==
  LET r == findIndex(store, req.id)
  IN IF r.threw THEN Later(Reject(h, HoleTypeError))
     ELSE IF r.index = 0 - 1 THEN Later(Reject(h, NotFoundError(req.id)))
     ELSE Now(Response(200, ProductKeys, <<>>, "", <<store[r.index + 1]>>, <<>>))

\* GET /api/products up to its await.
listProducts(store, req, h) ==
  Later(Task("respond", h, <<>>,
             <<Response(200, {"page", "limit", "total", "data"}, <<>>, "", <<>>,
                        <<getProducts(store, req.query)>>)>>,
             <<>>, 0))

\* POST /api/products up to its await.
postProduct(store, req, uuid, h) ==
  Later(Task("post", h, <<>>, <<>>, <<buildProduct(uuid, req.body)>>, 0))

\* PUT /api/products/:id up to its await: the index is read here.
putProduct(store, req, h) ==
  LET r == findIndex(store, req.id)
  IN IF r.threw THEN Later(Reject(h, HoleTypeError))
     ELSE IF r.index = 0 - 1 THEN Later(Reject(h, NotFoundError(req.id)))
     ELSE Later(Task("put", h, <<>>, <<>>, <<buildProduct(req.id, req.body)>>, r.index))

\* DELETE /api/products/:id up to its await: the index is read here.
deleteProduct(store, req, h) ==
  LET r == findIndex(store, req.id)
  IN IF r.threw THEN Later(Reject(h, HoleTypeError))
     ELSE IF r.index = 0 - 1 THEN Later(Reject(h, NotFoundError(req.id)))
     ELSE Later(Task("delete", h, <<>>, <<>>, <<>>, r.index))

\* The key whose assignment on a plain object goes to the prototype setter,
\* which ignores a value that is not an object.
ProtoKey == <<"_", "_", "p", "r", "o", "t", "o", "_", "_">>

\* The other property names a plain object {} inherits from Object.prototype:
\* acc[key] reads a function for them before the key is set.
ObjectPrototypeKeys ==
  { <<"c", "o", "n", "s", "t", "r", "u", "c", "t", "o", "r">>,
    <<"t", "o", "S", "t", "r", "i", "n", "g">>,
    <<"t", "o", "L", "o", "c", "a", "l", "e", "S", "t", "r", "i", "n", "g">>,
    <<"v", "a", "l", "u", "e", "O", "f">>,
    <<"h", "a", "s", "O", "w", "n", "P", "r", "o", "p", "e", "r", "t", "y">>,
    <<"i", "s", "P", "r", "o", "t", "o", "t", "y", "p", "e", "O", "f">>,
    <<"p", "r", "o", "p", "e", "r", "t", "y", "I", "s", "E", "n", "u", "m", "e", "r", "a", "b", "l", "e">>,
    <<"_", "_", "d", "e", "f", "i", "n", "e", "G", "e", "t", "t", "e", "r", "_", "_">>,
    <<"_", "_", "d", "e", "f", "i", "n", "e", "S", "e", "t", "t", "e", "r", "_", "_">>,
    <<"_", "_", "l", "o", "o", "k", "u", "p", "G", "e", "t", "t", "e", "r", "_", "_">>,
    <<"_", "_", "l", "o", "o", "k", "u", "p", "S", "e", "t", "t", "e", "r", "_", "_">> }

\* One property of the accumulator: its value is the number n, or, when text,
\* the string made of the inherited function's source followed by n
\* characters "1".
Entry(key, text, n) == [key |-> key, text |-> text, n |-> n]

\* acc[p.category] = (acc[p.category] || 0) + 1
countCategory(acc, category) ==
  IF \E e \in acc : e.key = category
    THEN LET e == CHOOSE x \in acc : x.key = category
         IN (acc \ {e}) \cup {Entry(category, e.text, e.n + 1)}
  ELSE IF category = ProtoKey THEN acc
  ELSE IF category \in ObjectPrototypeKeys THEN acc \cup {Entry(category, TRUE, 1)}
  ELSE acc \cup {Entry(category, FALSE, 1)}

\* products.reduce((acc, p) => ..., {}): the callback is not called on empty
\* slots.
RECURSIVE reduce(_, _)
reduce(store, acc) ==
  IF store = <<>> THEN acc
  ELSE reduce(Tail(store),
              IF Head(store).hole THEN acc ELSE countCategory(acc, Head(store).category))

StatsKeys == {"total", "inStock", "byCategory"}

\* const total, inStock, byCategory of GET /api/products/stats.
getStats(store) ==
  [total |-> Len(store),
   inStock |-> Len(filter(store, { p \in { store[i] : i \in 1..Len(store) } : p.inStock })),
   byCategory |-> reduce(store, {})]

\* GET /api/products/stats up to its await, which comes first: the array is
\* read after it.
statsProducts(store, req, h) ==
  Later(Task("stats", h, <<>>, <<>>, <<>>, 0))

\* A request from the first middleware to the handler's await or response.
SyncPart(store, req, uuid, h, nodeEnv) ==
  LET gate == Gate(req)
  IN IF gate # <<>> THEN Now(errorHandler(gate[1], req, nodeEnv))
     ELSE IF req.method = "GET" /\ req.route = "/api/products/:id"
       THEN getProductById(store, req, h)
     ELSE IF req.method = "GET" /\ req.route = "/api/products/stats"
       THEN statsProducts(store, req, h)
     ELSE IF req.method = "GET" THEN listProducts(store, req, h)
     ELSE IF req.method = "POST" THEN postProduct(store, req, uuid, h)
     ELSE IF req.method = "PUT" THEN putProduct(store, req, h)
     ELSE deleteProduct(store, req, h)

\* The rest of a handler after its await: the write to the array, and the
\* response.
RunTask(store, task, req, nodeEnv) ==
  IF task.kind = "reject"
    THEN [store |-> store, resp |-> errorHandler(task.err[1], req, nodeEnv)]
  ELSE IF task.kind = "respond"
    THEN [store |-> store, resp |-> task.resp[1]]
  ELSE IF task.kind = "stats"
    THEN [store |-> store,
          resp |-> Response(200, StatsKeys, <<>>, "", <<>>, <<getStats(store)>>)]
  ELSE IF task.kind = "post"
    THEN [store |-> Append(store, task.product[1]),
          resp |-> Response(201, {"message", "product"}, <<>>,
                            "Product created successfully", task.product, <<>>)]
  ELSE IF task.kind = "put"
    THEN [store |-> assignAt(store, task.index, task.product[1]),
          resp |-> Response(200, {"message", "product"}, <<>>,
                            "Product updated successfully", task.product, <<>>)]
  ELSE LET s == splice(store, task.index)
       IN [store |-> s.store,
           resp |-> Response(200,
                             IF s.removed = <<>> THEN {"message"} ELSE {"message", "product"},
                             <<>>, "Product deleted successfully", s.removed, <<>>)]

\* ------------------------------------------------------------------- state
VARIABLES
  products,    \* the in-memory server's array
  microtasks,  \* suspended continuations, first in first out
  draining,    \* TRUE while the event loop empties the microtask queue
  history,     \* the requests received, in order, each with its response and
               \* with how many responses had been sent when it came in
  answered,    \* indices into history, in the order the responses were sent
  nodeEnv,     \* process.env.NODE_ENV
  collection   \* the router's Product collection

vars == <<products, microtasks, draining, history, answered, nodeEnv, collection>>

Init ==
  /\ products = SeedProducts
  /\ microtasks = <<>>
  /\ draining = FALSE
  /\ history = <<>>
  /\ answered = <<>>
  /\ nodeEnv \in {"production", "development"}
  /\ collection = <<>>

\* How many requests a server has received.
Received(server) ==
  Cardinality({ i \in 1..Len(history) : history[i].req.server = server })

\* The identifiers uuidv4() has handed out.
Issued == { history[i].uuid : i \in 1..Len(history) } \ {<<>>}

\* A request is read and runs to its handler's first await, or to its
\* response. Requests are taken one after another for as long as the event
\* loop has not started on the microtask queue.
Receive(req, uuid) ==
  /\ ~draining
  /\ LET h == Len(history) + 1
         r == SyncPart(products, req, uuid, h, nodeEnv)
     IN /\ history' = Append(history, [req |-> req, uuid |-> uuid, resp |-> r.resp,
                                       after |-> Len(answered)])
        /\ answered' = IF r.resp # <<>> THEN Append(answered, h) ELSE answered
        /\ microtasks' = microtasks \o r.task
  /\ UNCHANGED <<products, draining, nodeEnv, collection>>

\* POST calls uuidv4() in its handler, so only past the gate.
ReceivePost(req) ==
  IF Gate(req) = <<>>
    THEN \E uuid \in Uuids \ Issued : Receive(req, uuid)
    ELSE Receive(req, <<>>)

\* The event loop runs the first continuation of the microtask queue; it takes
\* no new request until the queue is empty.
RunMicrotask ==
  /\ microtasks # <<>>
  /\ LET task == Head(microtasks)
         r == RunTask(products, task, history[task.h].req, nodeEnv)
     IN /\ products' = r.store
        /\ history' = [history EXCEPT ![task.h].resp = <<r.resp>>]
        /\ answered' = Append(answered, task.h)
  /\ microtasks' = Tail(microtasks)
  /\ draining' = (Tail(microtasks) # <<>>)
  /\ UNCHANGED <<nodeEnv, collection>>

\* ------------------------------------------------------------------ inputs
RightKey == Key(ExpectedApiKey)
WrongKey == Key("wrong-key")

\* The ids a client can name: those of the seed records and those a POST has
\* returned.
KnownIds ==
  { <<"1">>, <<"2">>, <<"3">> }
    \cup ({ history[answered[k]].uuid : k \in 1..Len(answered) } \ {<<>>})

\* A plain valid payload.
WidgetBody ==
  Body(Undefined, Str(<<"T", "v">>), Str(<<"d">>), Num(5), Str(<<"h", "o", "m", "e">>),
       Bool(FALSE))

\* A valid payload with padded strings, price 0, no inStock, and an id of its
\* own, which is the id of another stored record.
PaddedBody ==
  Body(Str(<<"2">>), Str(<<" ", "T", "v", " ">>), Str(<<" ">>), Num(0),
       Str(<<" ", "H", "o", "m", "e">>), Undefined)

GetById(id) ==
  Request("memory", "GET", "/api/products/:id", id, NoKey, EmptyBody, NoQuery)
GetList(query) ==
  Request("memory", "GET", "/api/products", <<>>, NoKey, EmptyBody, query)
Post(apiKey, body) ==
  Request("memory", "POST", "/api/products", <<>>, apiKey, body, NoQuery)
GetStats ==
  Request("memory", "GET", "/api/products/stats", <<>>, NoKey, EmptyBody, NoQuery)
Put(id, apiKey, body) ==
  Request("memory", "PUT", "/api/products/:id", id, apiKey, body, NoQuery)
Delete(id, apiKey) ==
  Request("memory", "DELETE", "/api/products/:id", id, apiKey, EmptyBody, NoQuery)

\* -------------------------------------------------------------------- Spec
\* The in-memory server under concurrent requests that carry the API key.
GetProductById ==
  /\ Received("memory") < MaxRequests
  /\ \E id \in KnownIds : Receive(GetById(id), <<>>)

GetProducts ==
  /\ Received("memory") < MaxRequests
  /\ Receive(GetList(NoQuery), <<>>)

GetProductStats ==
  /\ Received("memory") < MaxRequests
  /\ Receive(GetStats, <<>>)

PostProduct ==
  /\ Received("memory") < MaxRequests
  /\ \E body \in { WidgetBody, PaddedBody } : ReceivePost(Post(RightKey, body))

PutProduct ==
  /\ Received("memory") < MaxRequests
  /\ \E id \in KnownIds : Receive(Put(id, RightKey, PaddedBody), <<>>)

DeleteProduct ==
  /\ Received("memory") < MaxRequests
  /\ \E id \in KnownIds : Receive(Delete(id, RightKey), <<>>)

Next ==
  \/ GetProductById
  \/ GetProducts
  \/ GetProductStats
  \/ PostProduct
  \/ PutProduct
  \/ DeleteProduct
  \/ RunMicrotask

Spec == Init /\ [][Next]_vars

\* ------------------------------------------------------------------ router
\* The Mongoose router. Each handler is taken as one step: it holds no index
\* or copy across its awaits, the collection does the lookup and the write.
\* A database call can fail, which the handler's catch answers with 500.
ServerError == Response(500, {"message"}, <<>>, "Server Error", <<>>, <<>>)

\* !name || !description || !price || !category || inStock === undefined
routerFieldsMissing(body) ==
  \/ Falsy(body.name)
  \/ Falsy(body.description)
  \/ Falsy(body.price)
  \/ Falsy(body.category)
  \/ body.inStock.t = "undefined"

\* The record `new Product({...})` holds for a payload of the schema's types.
routerDocument(id, body) ==
  Product(id, body.name.s, body.description.s, body.price.n, body.category.s,
          body.inStock.b)

\* Product.findOne({ id }): the position of the document, 0 when there is none.
findOne(coll, id) ==
  IF \E i \in 1..Len(coll) : coll[i].id = id
    THEN CHOOSE i \in 1..Len(coll) :
           coll[i].id = id /\ \A j \in 1..(i - 1) : coll[j].id # id
    ELSE 0

\* router.get("/products")
routerList(coll, req, dbOk) ==
  IF ~dbOk THEN [collection |-> coll, resp |-> ServerError]
  ELSE [collection |-> coll,
        resp |-> Response(200, {"[]"}, <<>>, "", <<>>,
                          <<Envelope(0, 0, Len(coll), coll)>>)]

\* router.get("/products/:id")
routerGet(coll, req, dbOk) ==
  IF ~dbOk THEN [collection |-> coll, resp |-> ServerError]
  ELSE IF findOne(coll, req.id) = 0
    THEN [collection |-> coll,
          resp |-> Response(404, {"message"}, <<>>, "Product not found", <<>>, <<>>)]
  ELSE [collection |-> coll,
        resp |-> Response(200, ProductKeys, <<>>, "", <<coll[findOne(coll, req.id)]>>, <<>>)]

\* router.post("/products")
routerPost(coll, req, uuid, dbOk) ==
  IF routerFieldsMissing(req.body)
    THEN [collection |-> coll,
          resp |-> Response(400, {"message"}, <<>>, "All fields are required", <<>>, <<>>)]
  ELSE IF ~dbOk THEN [collection |-> coll, resp |-> ServerError]
  ELSE [collection |-> Append(coll, routerDocument(uuid, req.body)),
        resp |-> Response(201, ProductKeys, <<>>, "", <<routerDocument(uuid, req.body)>>, <<>>)]

\* router.put("/products/:id")
routerPut(coll, req, dbOk) ==
  IF routerFieldsMissing(req.body)
    THEN [collection |-> coll,
          resp |-> Response(400, {"message"}, <<>>, "All fields are required", <<>>, <<>>)]
  ELSE IF ~dbOk THEN [collection |-> coll, resp |-> ServerError]
  ELSE IF findOne(coll, req.id) = 0
    THEN [collection |-> coll,
          resp |-> Response(404, {"message"}, <<>>, "Product not found", <<>>, <<>>)]
  ELSE LET i == findOne(coll, req.id)
           doc == routerDocument(coll[i].id, req.body)
       IN [collection |-> [coll EXCEPT ![i] = doc],
           resp |-> Response(200, ProductKeys, <<>>, "", <<doc>>, <<>>)]

\* router.delete("/products/:id")
routerDelete(coll, req, dbOk) ==
  IF ~dbOk THEN [collection |-> coll, resp |-> ServerError]
  ELSE IF findOne(coll, req.id) = 0
    THEN [collection |-> coll,
          resp |-> Response(404, {"message"}, <<>>, "Product not found", <<>>, <<>>)]
  ELSE LET i == findOne(coll, req.id)
       IN [collection |-> SubSeq(coll, 1, i - 1) \o SubSeq(coll, i + 1, Len(coll)),
           resp |-> Response(200, {"message"}, <<>>, "Product deleted successfully", <<>>, <<>>)]

\* The router answers a request.
RouterAnswers(req, uuid, r) ==
  /\ history' = Append(history, [req |-> req, uuid |-> uuid, resp |-> <<r.resp>>,
                                 after |-> Len(answered)])
  /\ answered' = Append(answered, Len(history) + 1)
  /\ collection' = r.collection
  /\ UNCHANGED <<products, microtasks, draining, nodeEnv>>

RouterRequest(method, route, id, body) ==
  Request("mongo", method, route, id, NoKey, body, NoQuery)

\* ---------------------------------------------------------------- SpecGate
\* One request at a time through the middleware of the in-memory server and
\* through the router, over every kind of credential and payload.
Keys == { NoKey, WrongKey, RightKey }

\* Valid but for its price of -5.
NegativePriceBody ==
  Body(Undefined, Str(<<"T", "v">>), Str(<<"d">>), Num(0 - 5), Str(<<"h", "o", "m", "e">>),
       Bool(TRUE))

\* Valid, with price 0 and every field given.
ZeroPriceBody ==
  Body(Undefined, Str(<<"T", "v">>), Str(<<"d">>), Num(0), Str(<<"h", "o", "m", "e">>),
       Bool(TRUE))

\* Every field given, the description an empty string.
EmptyDescriptionBody ==
  Body(Undefined, Str(<<"T", "v">>), Str(<<>>), Num(5), Str(<<"h", "o", "m", "e">>),
       Bool(TRUE))

GateBodies ==
  { WidgetBody, PaddedBody, NegativePriceBody, ZeroPriceBody, EmptyDescriptionBody,
    EmptyBody, MalformedBody }

\* The payloads the router is given: parsed JSON whose fields, where present,
\* have the schema's types.
RouterBodies == GateBodies \ { MalformedBody }

GateIds == { <<"1">>, <<"u", "1">> }

GatePost ==
  /\ Received("memory") < MaxGateRequests
  /\ \E apiKey \in Keys, body \in GateBodies : ReceivePost(Post(apiKey, body))

GatePut ==
  /\ Received("memory") < MaxGateRequests
  /\ \E id \in GateIds, apiKey \in Keys, body \in GateBodies :
       Receive(Put(id, apiKey, body), <<>>)

GateDelete ==
  /\ Received("memory") < MaxGateRequests
  /\ \E id \in GateIds, apiKey \in Keys, body \in { EmptyBody, MalformedBody } :
       Receive([Delete(id, apiKey) EXCEPT !.body = body], <<>>)

GateGet ==
  /\ Received("memory") < MaxGateRequests
  /\ \E id \in GateIds : Receive(GetById(id), <<>>)

RouterList ==
  /\ Received("mongo") < MaxRouterRequests
  /\ \E dbOk \in BOOLEAN :
       LET req == RouterRequest("GET", "/products", <<>>, EmptyBody)
       IN RouterAnswers(req, <<>>, routerList(collection, req, dbOk))

RouterGet ==
  /\ Received("mongo") < MaxRouterRequests
  /\ \E id \in GateIds, dbOk \in BOOLEAN :
       LET req == RouterRequest("GET", "/products/:id", id, EmptyBody)
       IN RouterAnswers(req, <<>>, routerGet(collection, req, dbOk))

RouterPost ==
  /\ Received("mongo") < MaxRouterRequests
  /\ \E body \in RouterBodies, dbOk \in BOOLEAN, uuid \in Uuids \ Issued :
       LET req == RouterRequest("POST", "/products", <<>>, body)
           id == IF routerFieldsMissing(body) THEN <<>> ELSE uuid
       IN RouterAnswers(req, id, routerPost(collection, req, uuid, dbOk))

RouterPut ==
  /\ Received("mongo") < MaxRouterRequests
  /\ \E id \in GateIds, body \in RouterBodies, dbOk \in BOOLEAN :
       LET req == RouterRequest("PUT", "/products/:id", id, body)
       IN RouterAnswers(req, <<>>, routerPut(collection, req, dbOk))

RouterDelete ==
  /\ Received("mongo") < MaxRouterRequests
  /\ \E id \in GateIds, dbOk \in BOOLEAN :
       LET req == RouterRequest("DELETE", "/products/:id", id, EmptyBody)
       IN RouterAnswers(req, <<>>, routerDelete(collection, req, dbOk))

NextGate ==
  \/ GatePost
  \/ GatePut
  \/ GateDelete
  \/ GateGet
  \/ RouterList
  \/ RouterGet
  \/ RouterPost
  \/ RouterPut
  \/ RouterDelete
  \/ RunMicrotask

SpecGate == Init /\ [][NextGate]_vars

\* ------------------------------------------------------------ SpecValidate
\* POST requests with the API key, over payloads that put every kind of value
\* in every field.
NameValues ==
  { Undefined, Null, Str(<<>>), Str(<<" ">>), Str(<<"T", "v">>), Num(5) }
DescriptionValues ==
  { Undefined, Str(<<>>), Str(<<" ">>), Str(<<"d">>), Obj }
PriceValues ==
  { Undefined, Null, Num(0), Num(0 - 5), Num(5), Str(<<"5">>) }
CategoryValues ==
  { Undefined, Str(<<>>), Str(<<" ">>), Str(<<"h", "o", "m", "e">>), Bool(TRUE) }
InStockValues ==
  { Undefined, Null, Bool(TRUE), Bool(FALSE), Str(<<"y", "e", "s">>) }

ValidateBodies ==
  { Body(Undefined, name, description, price, category, inStock) :
      name \in NameValues, description \in DescriptionValues, price \in PriceValues,
      category \in CategoryValues, inStock \in InStockValues }

ValidatePost ==
  /\ Received("memory") < MaxGateRequests
  /\ \E body \in ValidateBodies : ReceivePost(Post(RightKey, body))

NextValidate ==
  \/ ValidatePost
  \/ RunMicrotask

SpecValidate == Init /\ [][NextValidate]_vars

\* --------------------------------------------------------------- SpecQuery
\* GET /api/products over every kind of query parameter, on arrays the server
\* reaches: the seed; the seed after two POSTs; the seed after DELETE 1,
\* DELETE 2 and PUT 3 received together, which leaves an empty slot; the seed
\* after three DELETEs.
SeedAndCreated ==
  SeedProducts \o << buildProduct(<<"u", "1">>, PaddedBody),
                     buildProduct(<<"u", "2">>, WidgetBody) >>

SeedWithHole ==
  << SeedProducts[2], Hole, buildProduct(<<"3">>, PaddedBody) >>

QueryStores == { SeedProducts, SeedAndCreated, SeedWithHole, <<>> }

CategoryParams ==
  { NoParam, Param(<<>>),
    Param(<<"E", "L", "E", "C", "T", "R", "O", "N", "I", "C", "S">>) }
QParams == { NoParam, Param(<<"L", "A", "P">>) }
PageParams ==
  { NoParam, Param(<<"2">>), Param(<<"a", "b", "c">>), Param(<<"-", "1">>) }
LimitParams ==
  { NoParam, Param(<<"2">>), Param(<<"0">>), Param(<<"-", "3">>),
    Param(<<"1", "5", "0">>), Param(<<"x">>) }

InitQuery ==
  /\ products \in QueryStores
  /\ microtasks = <<>>
  /\ draining = FALSE
  /\ history = <<>>
  /\ answered = <<>>
  /\ nodeEnv = "production"
  /\ collection = <<>>

QueryProducts ==
  /\ Received("memory") < MaxGateRequests
  /\ \E category \in CategoryParams, q \in QParams, page \in PageParams,
        limit \in LimitParams :
       Receive(GetList(Query(category, q, page, limit)), <<>>)

NextQuery ==
  \/ QueryProducts
  \/ RunMicrotask

SpecQuery == InitQuery /\ [][NextQuery]_vars
\* --------------------------------------------------------------- SpecStats
\* The in-memory server with statistics requests among writes whose payloads
\* name categories of every kind: an ordinary one, a property name of
\* Object.prototype, and __proto__.
ConstructorBody ==
  Body(Undefined, Str(<<"T", "v">>), Str(<<"d">>), Num(5), Str(<<"c", "o", "n", "s", "t", "r", "u", "c", "t", "o", "r">>),
       Bool(TRUE))

ProtoBody ==
  Body(Undefined, Str(<<"T", "v">>), Str(<<"d">>), Num(5), Str(ProtoKey), Bool(TRUE))

StatsBodies == { WidgetBody, ConstructorBody, ProtoBody }

StatsPost ==
  /\ Received("memory") < MaxRequests
  /\ \E body \in StatsBodies : ReceivePost(Post(RightKey, body))

StatsPut ==
  /\ Received("memory") < MaxRequests
  /\ \E id \in KnownIds, body \in StatsBodies : Receive(Put(id, RightKey, body), <<>>)

StatsDelete ==
  /\ Received("memory") < MaxRequests
  /\ \E id \in KnownIds : Receive(Delete(id, RightKey), <<>>)

StatsGet ==
  /\ Received("memory") < MaxRequests
  /\ Receive(GetStats, <<>>)

NextStats ==
  \/ StatsPost
  \/ StatsPut
  \/ StatsDelete
  \/ StatsGet
  \/ RunMicrotask

SpecStats == Init /\ [][NextStats]_vars


\* ------------------------------------------------------------------ claims
\* The entry of history that was answered k-th.
Answer(k) == history[answered[k]]

IsItemGet(req) == req.method = "GET" /\ req.route = "/api/products/:id"

\* C1: in every reachable state of the in-memory store, whatever POST, PUT and
\* DELETE requests were interleaved, no two records of the products array
\* share an id.
C1_NoDuplicateIds ==
  \A i, j \in 1..Len(products) :
    (i # j /\ ~products[i].hole /\ ~products[j].hole) => products[i].id # products[j].id

\* The orders in which n requests can run one after another.
Orders(n) == { f \in [1..n -> 1..n] : \A i, j \in 1..n : f[i] = f[j] => i = j }

\* One request run alone from its first middleware to its response.
RunAlone(store, entry, k) ==
  LET r == SyncPart(store, entry.req, entry.uuid, k, nodeEnv)
  IN IF r.resp # <<>>
       THEN [store |-> store, resp |-> r.resp[1]]
       ELSE RunTask(store, r.task[1], entry.req, nodeEnv)

\* The requests of history run one after another in the given order, from the
\* store as it was: the final store, and the response of each request.
RECURSIVE RunSerially(_, _, _, _)
RunSerially(order, i, store, resps) ==
  IF i > Len(order) THEN [store |-> store, resps |-> resps]
  ELSE LET k == order[i]
           r == RunAlone(store, history[k], k)
       IN RunSerially(order, i + 1, r.store, [resps EXCEPT ![k] = <<r.resp>>])

\* C2: concurrent writes are serialized: once every request has been answered,
\* the products array and every response are those of running the same
\* requests one after another in some order.
C2_Serializable ==
  (microtasks = <<>>) =>
    \E order \in Orders(Len(history)) :
      LET out == RunSerially(order, 1, SeedProducts, [k \in 1..Len(history) |-> <<>>])
      IN /\ out.store = products
         /\ \A k \in 1..Len(history) : out.resps[k] = history[k].resp

\* C3: a DELETE of id X answered 200 returns the record of id X, and every GET
\* of X and every further DELETE of X that comes in after that response (with
\* the API key, so that it reaches the handler) is answered 404.
C3_DeletedStaysDeleted ==
  \A a \in 1..Len(answered) :
    LET d == Answer(a)
    IN (d.req.server = "memory" /\ d.req.method = "DELETE" /\ d.resp[1].status = 200) =>
         /\ d.resp[1].product # <<>>
         /\ d.resp[1].product[1].id = d.req.id
         /\ \A b \in 1..Len(answered) :
              LET r == Answer(b)
              IN (r.after >= a /\ r.req.server = "memory" /\ r.req.id = d.req.id
                  /\ Gate(r.req) = <<>>
                  /\ (IsItemGet(r.req) \/ r.req.method = "DELETE"))
                   => r.resp[1].status = 404

\* The step that runs the continuation of a PUT: the write to the array.
PutWrites ==
  /\ microtasks # <<>>
  /\ Head(microtasks).kind = "put"
  /\ microtasks' = Tail(microtasks)

\* C4: a PUT answered 200 swaps only the stored record of the path id: the
\* record it answers with has the path id, whatever id the body carries, and
\* every record stored under another id stays where it was, unchanged.
C4_PutTouchesOnlyItsRecord ==
  [][ PutWrites =>
        LET task == Head(microtasks)
            id == history[task.h].req.id
        IN /\ history'[task.h].resp[1].status = 200
           /\ history'[task.h].resp[1].product[1].id = id
           /\ \A i \in 1..Len(products) :
                (~products[i].hole /\ products[i].id # id) =>
                  (i <= Len(products') /\ products'[i] = products[i])
           /\ Len(products') = Len(products) ]_vars

\* The payload rules of the specification: all six hold.
ValidPayload(body) ==
  /\ ~body.malformed
  /\ body.name.t = "string" /\ trim(body.name.s) # <<>>
  /\ body.description.t = "string"
  /\ body.price.t = "number" /\ body.price.n >= 0
  /\ body.category.t = "string" /\ trim(body.category.s) # <<>>
  /\ body.inStock.t \in {"undefined", "boolean"}

IsWrite(req) == req.method \in {"POST", "PUT", "DELETE"}

\* C5: POST, PUT and DELETE are gated by x-api-key before anything else: without
\* the configured key the answer is 401, also for an invalid body, and the
\* stores are left as they were; a POST with the key and a valid body is
\* answered 201.
C5_ApiKeyGatesWrites ==
  /\ \A k \in 1..Len(answered) :
       LET e == Answer(k)
       IN IsWrite(e.req) =>
            /\ e.req.apiKey # RightKey => e.resp[1].status = 401
            /\ (e.req.apiKey = RightKey /\ e.req.method = "POST" /\ ValidPayload(e.req.body))
                 => e.resp[1].status = 201
  /\ (\A i \in 1..Len(history) : history[i].req.apiKey # RightKey)
       => (products = SeedProducts /\ collection = <<>>)

\* A payload that is valid whatever its price is, with every field given.
OtherwiseValid(body) ==
  ValidPayload([body EXCEPT !.price = Num(1)]) /\ body.inStock.t = "boolean"

\* The records of both stores.
Stored ==
  { products[i] : i \in 1..Len(products) } \cup { collection[i] : i \in 1..Len(collection) }

\* C7: on every POST handler, an otherwise valid body with price 0 is accepted
\* (never answered 400), one with a negative price is answered 400 (500 when
\* the database fails first) and nothing is stored for it.
C7_PriceZeroAcceptedNegativeRejected ==
  /\ \A k \in 1..Len(answered) :
       LET e == Answer(k)
       IN (e.req.method = "POST" /\ OtherwiseValid(e.req.body)
           /\ (e.req.server = "memory" => e.req.apiKey = RightKey)) =>
            /\ e.req.body.price = Num(0) => e.resp[1].status # 400
            /\ (e.req.body.price.t = "number" /\ e.req.body.price.n < 0)
                 => e.resp[1].status \in {400, 500}
  /\ \A p \in Stored : p.price >= 0

\* The rule of the claim's list that a payload fails first, 0 when none.
ClaimedRule(body) ==
  IF \E v \in {body.name, body.description, body.price, body.category} : v.t = "undefined"
    THEN 1
  ELSE IF ~(body.name.t = "string" /\ trim(body.name.s) # <<>>) THEN 2
  ELSE IF body.description.t # "string" THEN 3
  ELSE IF ~(body.price.t = "number" /\ body.price.n >= 0) THEN 4
  ELSE IF ~(body.category.t = "string" /\ trim(body.category.s) # <<>>) THEN 5
  ELSE IF ~(body.inStock.t \in {"undefined", "boolean"}) THEN 6
  ELSE 0

\* The rule a response reports: 0 for a created product.
ReportedRule(resp) ==
  IF resp.status = 201 THEN 0
  ELSE IF resp.status # 400 \/ resp.error = <<>> THEN 0 - 1
  ELSE LET m == resp.error[1].message.text
       IN IF m = "Missing required fields: name, description, price, category are required" THEN 1
          ELSE IF m = "name must be a non-empty string" THEN 2
          ELSE IF m = "description must be a string" THEN 3
          ELSE IF m = "price must be a positive number" THEN 4
          ELSE IF m = "category must be a non-empty string" THEN 5
          ELSE IF m = "inStock must be a boolean" THEN 6
          ELSE 0 - 1

\* C8: validateProduct reports the first rule of the list that fails (a field
\* missing counts only when it is undefined, an empty description is allowed),
\* and lets a payload pass exactly when no rule fails.
C8_FirstFailingRule ==
  \A k \in 1..Len(answered) :
    LET e == Answer(k)
    IN (e.req.server = "memory" /\ e.req.method = "POST" /\ e.req.apiKey = RightKey
        /\ ~e.req.body.malformed)
         => ReportedRule(e.resp[1]) = ClaimedRule(e.req.body)

\* The status the claim fixes for a canonical error of the given name.
StatusOf(name) ==
  IF name = "NotFoundError" THEN 404
  ELSE IF name = "ValidationError" THEN 400
  ELSE IF name = "AuthenticationError" THEN 401
  ELSE 500

\* C10: every failure is answered with { error: { name, message, statusCode,
\* timestamp, path, method } }, the status fixed by the kind of failure, the
\* message of a 500 generic in production; no handler answers a failure in
\* another shape.
C10_OneErrorShape ==
  \A k \in 1..Len(answered) :
    LET resp == Answer(k).resp[1]
    IN resp.status >= 400 =>
         /\ resp.keys = {"error"}
         /\ resp.error # <<>>
         /\ resp.error[1].keys = CanonicalKeys
         /\ resp.error[1].statusCode = resp.status
         /\ resp.status = StatusOf(resp.error[1].name)
         /\ (resp.status = 500 /\ nodeEnv = "production")
              => resp.error[1].message = Text("Something went wrong on our end")

\* The record the claim expects a POST of this payload to store under id.
InputRecord(id, body) ==
  [hole |-> FALSE, id |-> id, name |-> body.name, description |-> body.description,
   price |-> body.price, category |-> body.category, inStock |-> body.inStock]

\* A stored record with its fields as JSON values.
AsInput(p) ==
  [hole |-> FALSE, id |-> p.id, name |-> Str(p.name), description |-> Str(p.description),
   price |-> Num(p.price), category |-> Str(p.category), inStock |-> Bool(p.inStock)]

\* The k-th answer is the 201 of a POST to the in-memory server.
IsCreated(k) ==
  /\ Answer(k).req.server = "memory"
  /\ Answer(k).req.method = "POST"
  /\ Answer(k).resp[1].status = 201

CreatedAndNotWrittenSince(id) ==
  \E a \in 1..Len(answered) :
    /\ IsCreated(a)
    /\ Answer(a).uuid = id
    /\ \A c \in (a + 1)..Len(answered) :
         ~(Answer(c).req.method \in {"PUT", "DELETE"} /\ Answer(c).resp[1].status = 200)

\* The payload of the POST that returned the id.
InputOf(id) ==
  history[CHOOSE h \in 1..Len(history) : history[h].uuid = id].req.body

ExpectedPage(query) ==
  IF ~query.page.present \/ parseInt(query.page.s).nan THEN 1
  ELSE Max(parseInt(query.page.s).n, 1)

\* The limit as claimed: default 10, then floor 1 and ceiling 100.
ClaimedLimit(query) ==
  IF ~query.limit.present \/ parseInt(query.limit.s).nan THEN 10
  ELSE Min(Max(parseInt(query.limit.s).n, 1), 100)

\* The limit as amended: a limit that parses to 0 gives the default 10 too.
AmendedLimit(query) ==
  IF ~query.limit.present \/ parseInt(query.limit.s).nan \/ parseInt(query.limit.s).n = 0
    THEN 10
  ELSE Min(Max(parseInt(query.limit.s).n, 1), 100)

\* The filtered list: the slots of the array, in order, that pass the category
\* filter and the q filter. A filter is on when its parameter is a non-empty
\* string, and no empty slot passes a filter that is on.
Filtered(query) ==
  LET categoryOn == query.category.present /\ query.category.s # <<>>
      qOn == query.q.present /\ query.q.s # <<>>
      Passes(p) ==
        /\ categoryOn => (~p.hole /\ toLowerCase(p.category) = toLowerCase(query.category.s))
        /\ qOn => (~p.hole /\ includes(toLowerCase(p.name), toLowerCase(query.q.s)))
  IN SelectSeq(products, Passes)

\* The data the server answers for pages first..last of a query, one after
\* another.
RECURSIVE ConcatPages(_, _, _)
ConcatPages(query, first, last) ==
  IF first > last THEN <<>>
  ELSE getProducts(products, [query EXCEPT !.page = Param(<<Digits[first + 1]>>)]).data
         \o ConcatPages(query, first + 1, last)

\* What C9 says of one answered GET /api/products, for a given reading of the
\* limit parameter.
ListedAs(e, limit) ==
  LET env == e.resp[1].envelope[1]
      F == Filtered(e.req.query)
      page == ExpectedPage(e.req.query)
      from == (page - 1) * limit
      n == Max(0, Min(limit, Len(F) - from))
      pages == (Len(F) + env.limit - 1) \div env.limit
  IN /\ e.resp[1].status = 200
     /\ e.resp[1].keys = {"page", "limit", "total", "data"}
     /\ env.page = page
     /\ env.limit = limit
     /\ env.total = Len(F)
     /\ env.data = [i \in 1..n |-> F[from + i]]
     /\ ConcatPages(e.req.query, 1, pages) = F

IsList(e) ==
  e.req.server = "memory" /\ e.req.method = "GET" /\ e.req.route = "/api/products"

\* C9 as claimed: GET /api/products answers {page, limit, total, data}: total
\* counts the filtered list, page is the parsed page (default 1, floor 1),
\* limit the parsed limit (default 10, floor 1, ceiling 100), data the filtered
\* list from (page-1)*limit for at most limit records, and the pages of one
\* limit concatenate to the filtered list.
C9_ListAsClaimed ==
  \A k \in 1..Len(answered) :
    IsList(Answer(k)) => ListedAs(Answer(k), ClaimedLimit(Answer(k).req.query))

\* C9 as amended: the same, with the limit 10 also for a limit parameter that
\* parses to 0 (an empty category or q parameter filters nothing, and an
\* empty slot of the array is listed unless a filter is on).
C9_ListAsAmended ==
  \A k \in 1..Len(answered) :
    IsList(Answer(k)) => ListedAs(Answer(k), AmendedLimit(Answer(k).req.query))

\* The second page of two of the three seed records was answered: one record
\* of a total of 3.
C9_Witness ==
  \E k \in 1..Len(answered) :
    /\ IsList(Answer(k))
    /\ products = SeedProducts
    /\ Answer(k).req.query = Query(NoParam, NoParam, Param(<<"2">>), Param(<<"2">>))
    /\ Answer(k).resp[1].envelope[1].total = 3
    /\ Answer(k).resp[1].envelope[1].data = <<SeedProducts[3]>>

\* The sum of the counts of a byCategory mapping.
RECURSIVE SumCounts(_)
SumCounts(entries) ==
  IF entries = {} THEN 0
  ELSE LET e == CHOOSE x \in entries : TRUE
       IN e.n + SumCounts(entries \ {e})

\* The statistics the claim gives an array: its records are the slots that
\* hold one.
ClaimedStats(store) ==
  LET records == { i \in 1..Len(store) : ~store[i].hole }
      categories == { store[i].category : i \in records }
  IN [total |-> Cardinality(records),
      inStock |-> Cardinality({ i \in records : store[i].inStock }),
      byCategory |->
        { Entry(c, FALSE, Cardinality({ i \in records : store[i].category = c }))
            : c \in categories }]

\* C11: whenever GET /api/products/stats is answered, total is the number of
\* stored records, inStock the number of records whose inStock is true, and
\* byCategory maps each category name to the number of records of that
\* category, so that its counts sum to total; for the seed set the answer is
\* {total: 3, inStock: 2, byCategory: {electronics: 2, kitchen: 1}}.
C11_StatsCountRecords ==
  [][ (/\ Len(answered') = Len(answered) + 1
       /\ history'[answered'[Len(answered')]].req = GetStats)
        => LET resp == history'[answered'[Len(answered')]].resp[1]
               stats == resp.envelope[1]
           IN /\ resp.status = 200
              /\ resp.keys = StatsKeys
              /\ stats = ClaimedStats(products)
              /\ \A e \in stats.byCategory : ~e.text
              /\ SumCounts(stats.byCategory) = stats.total
              /\ products = SeedProducts
                   => stats = [total |-> 3, inStock |-> 2,
                               byCategory |-> { Entry(Electronics, FALSE, 2),
                                                Entry(Kitchen, FALSE, 1) }] ]_vars

====
